---- MODULE Spec2Model ----
(***************************************************************************)
(* Model of projetocall.py: the pivot / IFR (RSI) indicator computation of *)
(* carregar_e_processar_dados and the recommendation and report built by   *)
(* gerar_relatorio_analise, driven by main.                                *)
(*                                                                         *)
(* Numbers.  Prices and levels are binary64 floats in the program, and the *)
(* model computes them as such: every sum, product and quotient is rounded *)
(* to 53 bits, to nearest, ties to even.  A price of the input data is     *)
(* given in cents; Price(c) is the float of the decimal c / 100.  The IFR  *)
(* is taken at integer resolution (it is only compared and printed).       *)
(*                                                                         *)
(* Text.  A report is a sequence of lines; a line has a key (which line of *)
(* the report it is), the words of its text that the program's substring   *)
(* tests and the properties look at, and the numbers it prints, formatted  *)
(* to two decimals (an integer number of cents).                           *)
(***************************************************************************)
EXTENDS Integers, Sequences, FiniteSets

VARIABLES pc, serie, df, relatorio

vars == <<pc, serie, df, relatorio>>

----------------------------------------------------------------------------
(* Program constants *)

RSI_PERIOD == 9
RSI_OVERBOUGHT == 65
RSI_OVERSOLD == 35

----------------------------------------------------------------------------
(* Bounds of the model *)

\* a series has 0 .. MaxBars bars
MaxBars == 10
\* high, low and close of the latest bar, in cents, are drawn from Prices
MaxPrice == 9997
\* closes of a row handed directly to gerar_relatorio_analise
MaxClose == 205
\* the IFR lies in 0 .. MaxIfr
MaxIfr == 100

Prices == {9000, 10000, 11000} \cup (9996 .. MaxPrice)
RowCloses == 95 .. MaxClose
RowLevels == {100, 200}
IfrValues == {0, 34, 35, 36, 50, 64, 65, 66, MaxIfr}
\* the sets of pivot columns a directly given row may lack
RowFaltam == {{}, {"S2", "R2"}} \cup {{c} : c \in {"PP", "R1", "S1", "R2", "S2"}}

----------------------------------------------------------------------------
(* Natural numbers of any size: little-endian sequences of limbs in base    *)
(* Base, without leading (most significant) zero limbs; zero is <<>>.       *)

LimbBits == 15
Base == 2 ^ LimbBits

Limb(a, i) == IF i <= Len(a) THEN a[i] ELSE 0

RECURSIVE Trim(_)
Trim(a) == IF a # <<>> /\ a[Len(a)] = 0 THEN Trim(SubSeq(a, 1, Len(a) - 1)) ELSE a

RECURSIVE NatOf(_)
NatOf(n) == IF n = 0 THEN <<>> ELSE <<n % Base>> \o NatOf(n \div Base)

RECURSIVE IntOf(_)
IntOf(a) == IF a = <<>> THEN 0 ELSE a[1] + Base * IntOf(Tail(a))

RECURSIVE AddFrom(_, _, _, _)
AddFrom(a, b, i, c) ==
    IF i > Len(a) /\ i > Len(b)
    THEN IF c = 0 THEN <<>> ELSE <<c>>
    ELSE LET s == Limb(a, i) + Limb(b, i) + c
         IN  <<s % Base>> \o AddFrom(a, b, i + 1, s \div Base)

NatAdd(a, b) == AddFrom(a, b, 1, 0)

\* a - b for a >= b
RECURSIVE SubFrom(_, _, _, _)
SubFrom(a, b, i, c) ==
    IF i > Len(a)
    THEN <<>>
    ELSE LET d == Limb(a, i) - Limb(b, i) - c
         IN  IF d < 0 THEN <<d + Base>> \o SubFrom(a, b, i + 1, 1)
                      ELSE <<d>> \o SubFrom(a, b, i + 1, 0)

NatSub(a, b) == Trim(SubFrom(a, b, 1, 0))

\* a * k for 0 <= k < Base
RECURSIVE MulSmallFrom(_, _, _, _)
MulSmallFrom(a, k, i, c) ==
    IF i > Len(a)
    THEN IF c = 0 THEN <<>> ELSE <<c>>
    ELSE LET p == a[i] * k + c
         IN  <<p % Base>> \o MulSmallFrom(a, k, i + 1, p \div Base)

NatMulSmall(a, k) == IF k = 0 THEN <<>> ELSE MulSmallFrom(a, k, 1, 0)

\* a * Base^n
ShiftLimbs(a, n) == IF a = <<>> THEN <<>> ELSE [i \in 1 .. n |-> 0] \o a

RECURSIVE MulFrom(_, _, _)
MulFrom(a, b, i) ==
    IF i > Len(b)
    THEN <<>>
    ELSE NatAdd(ShiftLimbs(NatMulSmall(a, b[i]), i - 1), MulFrom(a, b, i + 1))

NatMul(a, b) == MulFrom(a, b, 1)

\* remainder of the limbs i .. Len(a) of a, divided by d, for 0 < d < Base
RECURSIVE RemFrom(_, _, _)
RemFrom(a, d, i) == IF i > Len(a) THEN 0 ELSE (RemFrom(a, d, i + 1) * Base + a[i]) % d

NatDivSmall(a, d) == Trim([i \in 1 .. Len(a) |-> (RemFrom(a, d, i + 1) * Base + a[i]) \div d])
NatModSmall(a, d) == RemFrom(a, d, 1)

\* -1, 0, 1 as a < b, a = b, a > b
RECURSIVE CmpFrom(_, _, _)
CmpFrom(a, b, i) ==
    IF i = 0 THEN 0
    ELSE IF a[i] < b[i] THEN -1
    ELSE IF a[i] > b[i] THEN 1
    ELSE CmpFrom(a, b, i - 1)

NatCmp(a, b) ==
    IF Len(a) < Len(b) THEN -1
    ELSE IF Len(a) > Len(b) THEN 1
    ELSE CmpFrom(a, b, Len(a))

\* number of bits of a
NatBits(a) ==
    IF a = <<>> THEN 0
    ELSE LimbBits * (Len(a) - 1)
            + (CHOOSE k \in 1 .. LimbBits : 2 ^ (k - 1) <= a[Len(a)] /\ a[Len(a)] < 2 ^ k)

\* a * 2^k and floor(a / 2^k)
NatShl(a, k) == ShiftLimbs(NatMulSmall(a, 2 ^ (k % LimbBits)), k \div LimbBits)
NatShr(a, k) ==
    LET n == k \div LimbBits
    IN  IF n >= Len(a) THEN <<>>
        ELSE NatDivSmall(SubSeq(a, n + 1, Len(a)), 2 ^ (k % LimbBits))

----------------------------------------------------------------------------
(* IEEE 754 binary64 (Python float, numpy float64): the value               *)
(* (-1)^neg * m * 2^e with 2^52 <= m < 2^53, or zero; every operation       *)
(* rounds its exact result to nearest, ties to even.  The exponent range    *)
(* (overflow, subnormals) is not modelled.                                  *)

MantBits == 53

FZero == [neg |-> FALSE, m |-> <<>>, e |-> 0]

\* the float nearest to (-1)^neg * n * 2^e; sticky says that the exact
\* value lies strictly above n * 2^e in magnitude (a discarded remainder)
FRound(neg, n, e, sticky) ==
    LET len == NatBits(n)
    IN  IF len = 0 THEN FZero
        ELSE IF len <= MantBits
        THEN [neg |-> neg, m |-> NatShl(n, MantBits - len), e |-> e - (MantBits - len)]
        ELSE LET k == len - MantBits
                 q == NatShr(n, k)
                 r == NatSub(n, NatShl(q, k))
                 half == NatCmp(r, NatShl(<<1>>, k - 1))
                 up == \/ half = 1
                       \/ half = 0 /\ (sticky \/ q[1] % 2 = 1)
                 q1 == IF up THEN NatAdd(q, <<1>>) ELSE q
             IN  IF NatBits(q1) > MantBits
                 THEN [neg |-> neg, m |-> NatShr(q1, 1), e |-> e + k + 1]
                 ELSE [neg |-> neg, m |-> q1, e |-> e + k]

\* float(n) for an integer n
FromInt(n) == IF n < 0 THEN FRound(TRUE, NatOf(0 - n), 0, FALSE) ELSE FRound(FALSE, NatOf(n), 0, FALSE)

FNeg(a) == IF a.m = <<>> THEN a ELSE [a EXCEPT !.neg = ~a.neg]

\* -1, 0, 1 as |a| < |b|, |a| = |b|, |a| > |b|
MagCmp(a, b) ==
    IF a.m = <<>> THEN (IF b.m = <<>> THEN 0 ELSE -1)
    ELSE IF b.m = <<>> THEN 1
    ELSE IF a.e < b.e THEN -1
    ELSE IF a.e > b.e THEN 1
    ELSE NatCmp(a.m, b.m)

FCmp(a, b) ==
    IF a.neg # b.neg
    THEN (IF a.m = <<>> /\ b.m = <<>> THEN 0 ELSE IF a.neg THEN -1 ELSE 1)
    ELSE IF a.neg THEN 0 - MagCmp(a, b) ELSE MagCmp(a, b)

FLeq(a, b) == FCmp(a, b) <= 0
FGeq(a, b) == FCmp(a, b) >= 0
FLt(a, b) == FCmp(a, b) < 0
FGt(a, b) == FCmp(a, b) > 0

\* a + b
FAdd(a, b) ==
    IF a.m = <<>> THEN b
    ELSE IF b.m = <<>> THEN a
    ELSE LET e == IF a.e < b.e THEN a.e ELSE b.e
             na == NatShl(a.m, a.e - e)
             nb == NatShl(b.m, b.e - e)
         IN  IF a.neg = b.neg
             THEN FRound(a.neg, NatAdd(na, nb), e, FALSE)
             ELSE IF NatCmp(na, nb) >= 0
             THEN FRound(a.neg, NatSub(na, nb), e, FALSE)
             ELSE FRound(b.neg, NatSub(nb, na), e, FALSE)

FSub(a, b) == FAdd(a, FNeg(b))

\* a * b
FMul(a, b) == FRound(a.neg # b.neg, NatMul(a.m, b.m), a.e + b.e, FALSE)

\* a / float(d) for an integer 0 < d < Base
FDivInt(a, d) ==
    LET n == NatShl(a.m, LimbBits + 2)
    IN  FRound(a.neg, NatDivSmall(n, d), a.e - (LimbBits + 2), NatModSmall(n, d) # 0)

\* the integer number of cents that f"{a:.2f}" prints: a * 100 rounded to
\* nearest, ties to even, from the exact value of a
FCents(a) ==
    LET n == NatMulSmall(a.m, 100)
        s == IF a.e >= 0 THEN NatShl(n, a.e) ELSE n
        k == IF a.e >= 0 THEN 0 ELSE 0 - a.e
        q == NatShr(s, k)
        r == NatSub(s, NatShl(q, k))
        half == IF k = 0 THEN -1 ELSE NatCmp(r, NatShl(<<1>>, k - 1))
        up == half = 1 \/ (half = 0 /\ IntOf(q) % 2 = 1)
        c == IntOf(q) + (IF up THEN 1 ELSE 0)
    IN  IF a.neg THEN 0 - c ELSE c

\* the float of the decimal price c / 100, c in cents
Price(c) == FDivInt(FromInt(c), 100)

----------------------------------------------------------------------------
(* Cells and rows of the data frame *)

Cell(x) == [na |-> FALSE, v |-> x]
NaN == [na |-> TRUE, v |-> 0]

ifr_col == "RSI_9"
PivotCols == {"PP", "R1", "S1", "R2", "S2"}

\* df is None / df.empty
EmptyRow == [c \in {} |-> NaN]

\* extend a row by one column
WithCol(row, c, cell) == [k \in DOMAIN row \cup {c} |-> IF k = c THEN cell ELSE row[k]]

----------------------------------------------------------------------------
(* Text helpers *)

\* word w occurs in text t
Contem(t, w) == \E i \in 1 .. Len(t) : t[i] = w

Linha(chave, texto, valor) == [chave |-> chave, texto |-> texto, valor |-> valor]

NEUTRA == <<"NEUTRA", "/", "AGUARDAR">>
COMPRA_AGRESSIVA == <<"COMPRA", "AGRESSIVA", "/", "LONG">>
COMPRA_MODERADA == <<"COMPRA", "MODERADA">>
VENDA_AGRESSIVA == <<"VENDA", "AGRESSIVA", "/", "SHORT">>
VENDA_MODERADA == <<"VENDA", "MODERADA">>

----------------------------------------------------------------------------
(* carregar_e_processar_dados *)

\* PivotPoints with the range of R2 and S2 taken from high and close
PivotPoints_RangeFromClose(H, L, C) ==
    LET PP == FDivInt(FAdd(FAdd(H, L), C), 3)
    IN  [PP |-> PP,
         R1 |-> FSub(FMul(FromInt(2), PP), L),
         S1 |-> FSub(FMul(FromInt(2), PP), H),
         R2 |-> FAdd(PP, FSub(H, C)),
         S2 |-> FSub(PP, FSub(H, C))]

\* classic pivot points of one bar
PivotPoints(H, L, C) ==
    LET PP == FDivInt(FAdd(FAdd(H, L), C), 3)
    IN  [PP |-> PP,
         R1 |-> FSub(FMul(FromInt(2), PP), L),
         S1 |-> FSub(FMul(FromInt(2), PP), H),
         R2 |-> FAdd(PP, FSub(H, L)),
         S2 |-> FSub(PP, FSub(H, L))]

\* what df.ta.rsi(length=RSI_PERIOD, append=True) leaves in the latest row
\* of a series of n bars: no column below RSI_PERIOD bars, NaN with exactly
\* RSI_PERIOD bars, a value in 0 .. MaxIfr from RSI_PERIOD + 1 bars on
ta_rsi(n) ==
    IF n < RSI_PERIOD THEN {}
    ELSE IF n = RSI_PERIOD THEN {NaN}
    ELSE {Cell(o) : o \in IfrValues}

\* the latest row of the processed frame, before the IFR column
ProcessedRow(s) ==
    LET p == PivotPoints(Price(s.High), Price(s.Low), Price(s.Close))
    IN  [c \in {"High", "Low", "Close"} \cup PivotCols |->
            CASE c = "High"  -> Cell(Price(s.High))
              [] c = "Low"   -> Cell(Price(s.Low))
              [] c = "Close" -> Cell(Price(s.Close))
              [] OTHER       -> Cell(p[c])]

----------------------------------------------------------------------------
(* gerar_relatorio_analise *)

\* IfrIndisponivel without the pd.isna test
IfrIndisponivel_NoNaNTest(dados_atuais) ==
    ifr_col \notin DOMAIN dados_atuais

\* ifr_col not in dados_atuais or pd.isna(dados_atuais[ifr_col])
IfrIndisponivel(dados_atuais) ==
    \/ ifr_col \notin DOMAIN dados_atuais
    \/ dados_atuais[ifr_col].na

\* PivoIndisponivel looking only at pp, r1 and s1
PivoIndisponivel_FirstLevelsOnly(dados_atuais) ==
    \E c \in {"PP", "R1", "S1"} : c \notin DOMAIN dados_atuais

\* any(v is None for v in [pp, r1, s1, r2, s2])
PivoIndisponivel(dados_atuais) ==
    \E c \in PivotCols : c \notin DOMAIN dados_atuais

\* dados_atuais.get(c): the cell, or None for an absent column
None == [na |-> TRUE, v |-> FZero]
Get(dados_atuais, c) == IF c \in DOMAIN dados_atuais THEN dados_atuais[c] ELSE None

tolerancia_perc == FDivInt(FromInt(15), 1000)

\* RecomendacaoAcao with the aggressive sell rule tested before moderate buy
RecomendacaoAcao_Rule3BeforeRule2(fechamento, ifr, s1, r1) ==
    LET tolerancia_r1 == FMul(r1, tolerancia_perc)
        tolerancia_s1 == FMul(s1, tolerancia_perc)
    IN  IF FLeq(fechamento, FAdd(s1, tolerancia_s1)) /\ ifr < RSI_OVERSOLD
        THEN COMPRA_AGRESSIVA
        ELSE IF FGeq(fechamento, FSub(r1, tolerancia_r1)) /\ ifr > RSI_OVERBOUGHT
        THEN VENDA_AGRESSIVA
        ELSE IF FLeq(fechamento, s1)
        THEN COMPRA_MODERADA
        ELSE IF FGeq(fechamento, r1)
        THEN VENDA_MODERADA
        ELSE NEUTRA

\* RecomendacaoAcao with the sell branch tested before the buy branch
RecomendacaoAcao_SellFirst(fechamento, ifr, s1, r1) ==
    LET tolerancia_r1 == FMul(r1, tolerancia_perc)
        tolerancia_s1 == FMul(s1, tolerancia_perc)
    IN  IF FGeq(fechamento, FSub(r1, tolerancia_r1)) /\ ifr > RSI_OVERBOUGHT
        THEN VENDA_AGRESSIVA
        ELSE IF FGeq(fechamento, r1)
        THEN VENDA_MODERADA
        ELSE IF FLeq(fechamento, FAdd(s1, tolerancia_s1)) /\ ifr < RSI_OVERSOLD
        THEN COMPRA_AGRESSIVA
        ELSE IF FLeq(fechamento, s1)
        THEN COMPRA_MODERADA
        ELSE NEUTRA

\* RecomendacaoAcao with an inclusive oversold bound
RecomendacaoAcao_OversoldInclusive(fechamento, ifr, s1, r1) ==
    LET tolerancia_r1 == FMul(r1, tolerancia_perc)
        tolerancia_s1 == FMul(s1, tolerancia_perc)
    IN  IF FLeq(fechamento, FAdd(s1, tolerancia_s1)) /\ ifr <= RSI_OVERSOLD
        THEN COMPRA_AGRESSIVA
        ELSE IF FLeq(fechamento, s1)
        THEN COMPRA_MODERADA
        ELSE IF FGeq(fechamento, FSub(r1, tolerancia_r1)) /\ ifr > RSI_OVERBOUGHT
        THEN VENDA_AGRESSIVA
        ELSE IF FGeq(fechamento, r1)
        THEN VENDA_MODERADA
        ELSE NEUTRA

\* the tolerances and the if / elif chain that chooses recomendacao_acao
RecomendacaoAcao(fechamento, ifr, s1, r1) ==
    LET tolerancia_r1 == FMul(r1, tolerancia_perc)
        tolerancia_s1 == FMul(s1, tolerancia_perc)
    IN  IF FLeq(fechamento, FAdd(s1, tolerancia_s1)) /\ ifr < RSI_OVERSOLD
        THEN COMPRA_AGRESSIVA
        ELSE IF FLeq(fechamento, s1)
        THEN COMPRA_MODERADA
        ELSE IF FGeq(fechamento, FSub(r1, tolerancia_r1)) /\ ifr > RSI_OVERBOUGHT
        THEN VENDA_AGRESSIVA
        ELSE IF FGeq(fechamento, r1)
        THEN VENDA_MODERADA
        ELSE NEUTRA

\* the words of justificativa_ifr set together with recomendacao_acao
JustificativaIfr(recomendacao_acao) ==
    CASE recomendacao_acao = COMPRA_AGRESSIVA -> <<"IFR", "Sobre-Venda">>
      [] recomendacao_acao = COMPRA_MODERADA  -> <<"IFR", "compra", "moderada">>
      [] recomendacao_acao = VENDA_AGRESSIVA  -> <<"IFR", "Sobre-Compra">>
      [] recomendacao_acao = VENDA_MODERADA   -> <<"IFR", "venda", "moderada">>
      [] OTHER                                -> <<"IFR", "zona", "neutra">>

\* SecaoRecomendacao that never recognises the neutral recommendation
SecaoRecomendacao_NeutraUnrecognised(recomendacao_acao, s1, r1) ==
    IF Contem(recomendacao_acao, "NEUTRO")
    THEN Linha("Recomendacao", <<"Aguardar">>, <<>>)
    ELSE LET acao_verbo == IF Contem(recomendacao_acao, "COMPRA") THEN "COMPRAR" ELSE "VENDER"
             nivel_entrada == IF Contem(recomendacao_acao, "COMPRA") THEN s1 ELSE r1
         IN  Linha("Recomendacao", recomendacao_acao \o <<acao_verbo>>, <<FCents(nivel_entrada)>>)

\* SecaoRecomendacao with the entry levels of buy and sell exchanged
SecaoRecomendacao_EntrySwapped(recomendacao_acao, s1, r1) ==
    IF Contem(recomendacao_acao, "NEUTRA")
    THEN Linha("Recomendacao", <<"Aguardar">>, <<>>)
    ELSE LET acao_verbo == IF Contem(recomendacao_acao, "COMPRA") THEN "COMPRAR" ELSE "VENDER"
             nivel_entrada == IF Contem(recomendacao_acao, "COMPRA") THEN r1 ELSE s1
         IN  Linha("Recomendacao", recomendacao_acao \o <<acao_verbo>>, <<FCents(nivel_entrada)>>)

\* the "### Recomendação" section
SecaoRecomendacao(recomendacao_acao, s1, r1) ==
    IF Contem(recomendacao_acao, "NEUTRA")
    THEN Linha("Recomendacao", <<"Aguardar">>, <<>>)
    ELSE LET acao_verbo == IF Contem(recomendacao_acao, "COMPRA") THEN "COMPRAR" ELSE "VENDER"
             nivel_entrada == IF Contem(recomendacao_acao, "COMPRA") THEN s1 ELSE r1
         IN  Linha("Recomendacao", recomendacao_acao \o <<acao_verbo>>, <<FCents(nivel_entrada)>>)

\* the "### Níveis de Preço Chave" section
SecaoNiveis(pp, s1, r1, s2, r2) ==
    << Linha("PP", <<>>, <<FCents(pp)>>),
       Linha("S1", <<>>, <<FCents(s1)>>),
       Linha("R1", <<>>, <<FCents(r1)>>),
       Linha("S2", <<>>, <<FCents(s2)>>),
       Linha("R2", <<>>, <<FCents(r2)>>) >>

\* the value returned for the latest row of the frame
gerar_relatorio_analise(dados_atuais) ==
    IF IfrIndisponivel(dados_atuais)
    THEN << Linha("Erro", <<"IFR">>, <<>>) >>
    ELSE IF PivoIndisponivel(dados_atuais)
    THEN << Linha("Erro", <<"Pivo">>, <<>>) >>
    ELSE LET fechamento == dados_atuais["Close"].v
             ifr == dados_atuais[ifr_col].v
             pp == Get(dados_atuais, "PP").v
             r1 == Get(dados_atuais, "R1").v
             s1 == Get(dados_atuais, "S1").v
             r2 == Get(dados_atuais, "R2").v
             s2 == Get(dados_atuais, "S2").v
             recomendacao_acao == RecomendacaoAcao(fechamento, ifr, s1, r1)
         IN  << Linha("Fechamento", <<>>, <<FCents(fechamento)>>) >>
             \o SecaoNiveis(pp, s1, r1, s2, r2)
             \o << Linha("Entre", <<"entre", "S1", "R1">>, <<FCents(s1), FCents(r1)>>),
                   Linha("IFR", JustificativaIfr(recomendacao_acao), <<ifr>>),
                   SecaoRecomendacao(recomendacao_acao, s1, r1) >>

----------------------------------------------------------------------------
(* main: load, then report *)

Init ==
    /\ pc = "inicio"
    /\ serie \in [n : 0 .. MaxBars, High : Prices, Low : Prices, Close : Prices]
    /\ df = EmptyRow
    /\ relatorio = <<>>

\* yf.download raises: st.error, return None
CarregarErro ==
    /\ pc = "inicio"
    /\ pc' = "sem_dados"
    /\ df' = EmptyRow
    /\ UNCHANGED <<serie, relatorio>>

\* df.empty: st.error, return None
CarregarVazio ==
    /\ pc = "inicio"
    /\ serie.n = 0
    /\ pc' = "sem_dados"
    /\ df' = EmptyRow
    /\ UNCHANGED <<serie, relatorio>>

\* pivots of every bar, IFR column appended when the library yields one
CarregarOk ==
    /\ pc = "inicio"
    /\ serie.n > 0
    /\ IF ta_rsi(serie.n) = {}
       THEN df' = ProcessedRow(serie)
       ELSE \E cell \in ta_rsi(serie.n) : df' = WithCol(ProcessedRow(serie), ifr_col, cell)
    /\ pc' = "carregado"
    /\ UNCHANGED <<serie, relatorio>>

\* main calls gerar_relatorio_analise on the processed frame and shows it
Gerar ==
    /\ pc = "carregado"
    /\ relatorio' = gerar_relatorio_analise(df)
    /\ pc' = "exibido"
    /\ UNCHANGED <<serie, df>>

Next == CarregarErro \/ CarregarVazio \/ CarregarOk \/ Gerar

Spec == Init /\ [][Next]_vars

----------------------------------------------------------------------------
(* gerar_relatorio_analise applied to an arbitrary latest row *)

\* ifr is <<>> (no IFR column) or <<cell>>
DirectRow(c, ifr, s, r, faltam) ==
    LET vals == [k \in {"Close"} \cup PivotCols \cup {ifr_col} |->
                    CASE k = "Close" -> Cell(FromInt(c))
                      [] k = "S1"    -> Cell(FromInt(s))
                      [] k = "R1"    -> Cell(FromInt(r))
                      [] k = "PP"    -> Cell(FromInt(150))
                      [] k = "S2"    -> Cell(FromInt(50))
                      [] k = "R2"    -> Cell(FromInt(250))
                      [] OTHER       -> IF ifr = <<>> THEN NaN ELSE ifr[1]]
        cols == (({"Close"} \cup PivotCols) \ faltam)
                    \cup (IF ifr = <<>> THEN {} ELSE {ifr_col})
    IN  [k \in cols |-> vals[k]]

InitRow ==
    /\ pc = "carregado"
    /\ serie = [n |-> 0, High |-> 0, Low |-> 0, Close |-> 0]
    /\ \E c \in RowCloses, s \in RowLevels, r \in RowLevels,
          ifr \in {<<>>, <<NaN>>} \cup {<<Cell(o)>> : o \in IfrValues},
          faltam \in RowFaltam :
            df = DirectRow(c, ifr, s, r, faltam)
    /\ relatorio = <<>>

NextRow == Gerar

SpecRow == InitRow /\ [][NextRow]_vars

----------------------------------------------------------------------------
(* Reading a state: the inputs of the classification and the report *)

Exibido == pc = "exibido"

Disponivel(c) == c \in DOMAIN df /\ ~df[c].na

\* every indicator gerar_relatorio_analise needs is in the latest row
Classificavel == \A c \in {"Close", "RSI_9", "PP", "R1", "S1", "R2", "S2"} : Disponivel(c)

Cl == df["Close"].v
Osc == df["RSI_9"].v
Sup1 == df["S1"].v
Res1 == df["R1"].v

LinhasDe(chave) == {i \in 1 .. Len(relatorio) : relatorio[i].chave = chave}
TemLinha(chave) == LinhasDe(chave) # {}
LinhaDe(chave) == relatorio[CHOOSE i \in LinhasDe(chave) : TRUE]

\* the category the report's recommendation section shows
Categoria ==
    IF Cardinality(LinhasDe("Recomendacao")) # 1 THEN "nenhuma"
    ELSE LET t == LinhaDe("Recomendacao").texto
         IN  CASE t = <<"Aguardar">>                                     -> "Neutral"
               [] Contem(t, "COMPRA") /\ Contem(t, "AGRESSIVA")         -> "AggressiveBuy"
               [] Contem(t, "COMPRA") /\ Contem(t, "MODERADA")          -> "ModerateBuy"
               [] Contem(t, "VENDA") /\ Contem(t, "AGRESSIVA")          -> "AggressiveSell"
               [] Contem(t, "VENDA") /\ Contem(t, "MODERADA")           -> "ModerateSell"
               [] OTHER                                                  -> "nenhuma"

\* the rows of the rule table (oversold 35, overbought 65, tol 0.015)
Tol == FDivInt(FromInt(15), 1000)
Rule1 == FLeq(Cl, FAdd(Sup1, FMul(Sup1, Tol))) /\ Osc < 35
Rule2 == FLeq(Cl, Sup1)
Rule3 == FGeq(Cl, FSub(Res1, FMul(Res1, Tol))) /\ Osc > 65
Rule4 == FGeq(Cl, Res1)

FirstMatch ==
    CASE Rule1                                     -> "AggressiveBuy"
      [] ~Rule1 /\ Rule2                           -> "ModerateBuy"
      [] ~Rule1 /\ ~Rule2 /\ Rule3                 -> "AggressiveSell"
      [] ~Rule1 /\ ~Rule2 /\ ~Rule3 /\ Rule4       -> "ModerateSell"
      [] OTHER                                     -> "Neutral"

ErroIfr == relatorio = << Linha("Erro", <<"IFR">>, <<>>) >>
ErroPivo == relatorio = << Linha("Erro", <<"Pivo">>, <<>>) >>

----------------------------------------------------------------------------
(* Claims *)

\* C1: for every close, IFR, S1 and R1 the recommendation shown is the
\* category of the first matching row of the ordered rule table, and it is
\* one of the five categories.
C1_FirstMatch ==
    (Exibido /\ Classificavel) =>
        /\ Categoria = FirstMatch
        /\ Categoria \in {"AggressiveBuy", "ModerateBuy", "AggressiveSell",
                          "ModerateSell", "Neutral"}

\* a row where rule 2 and rule 3 both match and rule 1 does not
C1_Witness ==
    Exibido /\ Classificavel /\ ~Rule1 /\ Rule2 /\ Rule3 /\ Categoria = "ModerateBuy"

\* C2: a close that satisfies a buy condition and a sell condition at the
\* same time is classified as a Buy, never as a Sell.
C2_BuyBeforeSell ==
    (Exibido /\ Classificavel /\ (Rule1 \/ Rule2) /\ (Rule3 \/ Rule4)) =>
        Categoria \in {"AggressiveBuy", "ModerateBuy"}

C2_Witness ==
    /\ Exibido /\ Classificavel /\ Rule2 /\ Rule4 /\ Sup1 # Res1
    /\ Categoria \in {"AggressiveBuy", "ModerateBuy"}

\* C3: the price bound of the aggressive buy rule is inclusive and its
\* oscillator bound is strict.
C3_BuyBoundaries ==
    (Exibido /\ Classificavel) =>
        /\ (Cl = FAdd(Sup1, FMul(Sup1, Tol)) /\ Osc < 35) => Categoria = "AggressiveBuy"
        /\ (Osc = 35) => Categoria # "AggressiveBuy"
        /\ (Cl = Sup1 /\ Osc = 35) => Categoria = "ModerateBuy"

C3_Witness ==
    /\ Exibido /\ Classificavel /\ Cl = FAdd(Sup1, FMul(Sup1, Tol)) /\ Osc = 34
    /\ Categoria = "AggressiveBuy"

\* C4: when the IFR of the latest bar is unavailable (no column, or NaN as
\* for a series of RSI_PERIOD bars) the outcome is the IFR error alone: no
\* category, no entry price, no recommendation section, no IFR narrative.
C4_IfrUnavailable ==
    (Exibido /\ (~Disponivel("RSI_9") \/ serie.n <= 9)) =>
        /\ ErroIfr
        /\ Categoria = "nenhuma"
        /\ ~TemLinha("Recomendacao")
        /\ ~TemLinha("IFR")

C4_Witness ==
    Exibido /\ serie.n = 9 /\ "RSI_9" \in DOMAIN df /\ df["RSI_9"].na /\ ErroIfr

\* C5: the pivot levels of the latest bar are PP = (H+L+C)/3, R1 = 2PP - L,
\* S1 = 2PP - H, R2 = PP + (H-L), S2 = PP - (H-L); for H=110, L=90, C=100
\* they are 100, 110, 90, 120, 80 and the report prints them so.
C5_Pivots ==
    (pc \in {"carregado", "exibido"}) =>
        LET H == Price(serie.High)
            L == Price(serie.Low)
            C == Price(serie.Close)
            PP == df["PP"].v
        IN  /\ PP = FDivInt(FAdd(FAdd(H, L), C), 3)
            /\ df["R1"].v = FSub(FAdd(PP, PP), L)
            /\ df["S1"].v = FSub(FAdd(PP, PP), H)
            /\ df["R2"].v = FAdd(PP, FSub(H, L))
            /\ df["S2"].v = FSub(PP, FSub(H, L))
            /\ (serie.High = 11000 /\ serie.Low = 9000 /\ serie.Close = 10000) =>
                  /\ PP = FromInt(100) /\ df["R1"].v = FromInt(110) /\ df["S1"].v = FromInt(90)
                  /\ df["R2"].v = FromInt(120) /\ df["S2"].v = FromInt(80)
                  /\ (Exibido /\ Classificavel) =>
                        /\ LinhaDe("PP").valor = <<10000>>
                        /\ LinhaDe("R1").valor = <<11000>>
                        /\ LinhaDe("S1").valor = <<9000>>
                        /\ LinhaDe("R2").valor = <<12000>>
                        /\ LinhaDe("S2").valor = <<8000>>

C5_Witness ==
    /\ Exibido /\ Classificavel
    /\ serie.High = 11000 /\ serie.Low = 9000 /\ serie.Close = 10000
    /\ LinhaDe("S2").valor = <<8000>>

\* C6: a close strictly between S1 and R1 with the IFR inside 35..65 gives
\* the Neutral signal: the waiting message, no entry price and neither the
\* buy verb nor the sell verb.
C6_Neutral ==
    (Exibido /\ Classificavel /\ FLt(Sup1, Cl) /\ FLt(Cl, Res1) /\ 35 <= Osc /\ Osc <= 65) =>
        /\ Categoria = "Neutral"
        /\ LinhaDe("Recomendacao").texto = <<"Aguardar">>
        /\ LinhaDe("Recomendacao").valor = <<>>
        /\ ~Contem(LinhaDe("Recomendacao").texto, "COMPRAR")
        /\ ~Contem(LinhaDe("Recomendacao").texto, "VENDER")

C6_Witness ==
    /\ Exibido /\ Classificavel /\ FLt(Sup1, Cl) /\ FLt(Cl, Res1) /\ Osc = 50
    /\ Categoria = "Neutral"

\* C7: a Buy category reports the buy verb with entry level S1, a Sell
\* category the sell verb with entry level R1, and never the other pair.
C7_VerbAndEntry ==
    (Exibido /\ Classificavel) =>
        LET rec == LinhaDe("Recomendacao")
        IN  /\ Categoria \in {"AggressiveBuy", "ModerateBuy"} =>
                /\ Contem(rec.texto, "COMPRAR") /\ ~Contem(rec.texto, "VENDER")
                /\ rec.valor = <<FCents(Sup1)>>
            /\ Categoria \in {"AggressiveSell", "ModerateSell"} =>
                /\ Contem(rec.texto, "VENDER") /\ ~Contem(rec.texto, "COMPRAR")
                /\ rec.valor = <<FCents(Res1)>>

C7_Witness ==
    /\ Exibido /\ Classificavel /\ Categoria = "AggressiveSell" /\ Sup1 # Res1
    /\ LinhaDe("Recomendacao").valor = <<FCents(Res1)>>

\* C8 as stated: a row that lacks S2 and/or R2, with IFR, PP, R1 and S1
\* available, still gets its report, only without the missing level lines.
C8_ReportWithoutS2R2 ==
    (/\ Exibido
     /\ \A c \in {"Close", "RSI_9", "PP", "R1", "S1"} : Disponivel(c)
     /\ ("S2" \notin DOMAIN df \/ "R2" \notin DOMAIN df)) =>
        /\ ~TemLinha("Erro")
        /\ TemLinha("Recomendacao")
        /\ TemLinha("S2") <=> "S2" \in DOMAIN df
        /\ TemLinha("R2") <=> "R2" \in DOMAIN df

\* C8 amended: a row that lacks S2 and/or R2, with IFR, PP, R1 and S1
\* available, gets the pivot error outcome and no section of the report.
C8_MissingS2R2IsFatal ==
    (/\ Exibido
     /\ \A c \in {"Close", "RSI_9", "PP", "R1", "S1"} : Disponivel(c)
     /\ ("S2" \notin DOMAIN df \/ "R2" \notin DOMAIN df)) =>
        /\ ErroPivo
        /\ ~TemLinha("Recomendacao")
        /\ ~TemLinha("PP")

C8_Witness ==
    /\ Exibido
    /\ \A c \in {"Close", "RSI_9", "PP", "R1", "S1", "R2"} : Disponivel(c)
    /\ "S2" \notin DOMAIN df
    /\ ErroPivo

WellFormed == 0 < serie.Low /\ serie.Low <= serie.Close /\ serie.Close <= serie.High
Flat == serie.High = serie.Low /\ serie.Low = serie.Close

\* C9: for a well-formed latest bar (0 < L <= C <= H), loading and then
\* reporting never gives Moderate Sell, and gives Moderate Buy only for a
\* flat bar H = L = C, where the buy branch wins.
C9_SameBarLevels ==
    (Exibido /\ Classificavel /\ WellFormed) =>
        /\ Categoria # "ModerateSell"
        /\ Categoria = "ModerateBuy" => Flat
        /\ Flat => Categoria \in {"AggressiveBuy", "ModerateBuy"}

\* C10: the sentence that the price is between Support 1 and Resistance 1
\* appears only when S1 <= close <= R1, and the rationale that the IFR is in
\* the neutral zone only when 35 <= IFR <= 65.
C10_NarrativeConsistent ==
    (Exibido /\ Classificavel) =>
        /\ TemLinha("Entre") => (FLeq(Sup1, Cl) /\ FLeq(Cl, Res1))
        /\ (TemLinha("IFR") /\ Contem(LinhaDe("IFR").texto, "neutra")) =>
              (35 <= Osc /\ Osc <= 65)

====
